---- MODULE Spec2Model ----
(***************************************************************************)
(* Model of package env (tyrzen/env): loading a dotenv file into the       *)
(* process environment (Load, parseLine) and filling a configuration       *)
(* struct from the environment (ParseTo, parseTo, getFieldValue,           *)
(* camelToSnake, setFieldValue).                                           *)
(*                                                                         *)
(* Go strings are modelled as sequences of one-character strings, so that  *)
(* indexing, slicing and case mapping are computed, not assumed.  The      *)
(* empty Go string "" is the empty sequence << >>.                         *)
(***************************************************************************)
EXTENDS Integers, Sequences, FiniteSets, TLC

VARIABLES
    environ,    \* the process environment (os.Setenv / os.LookupEnv): name -> value
    files,      \* the file system as os.Open sees it: path -> status and lines
    dst,        \* the destination struct handed to ParseTo / parseTo
    call,       \* the invocation under way: the function and its arguments
    ret,        \* what the invocation returned (meaningful once pc = "done")
    pc          \* "call" before the invoked function has run, "done" after

vars == <<environ, files, dst, call, ret, pc>>

(***************************************************************************)
(* Bounds of the model.                                                    *)
(***************************************************************************)
MaxLineLen == 4     \* longest line handed to parseLine
MaxNameLen == 4     \* longest identifier handed to camelToSnake
MaxValLen == 3      \* longest string handed to setFieldValue
MaxFileLines == 2   \* most lines in a dotenv file

(***************************************************************************)
(* Strings.                                                                *)
(***************************************************************************)
Empty == << >>

LowerLetters == <<"a","b","c","d","e","f","g","h","i","j","k","l","m",
                  "n","o","p","q","r","s","t","u","v","w","x","y","z">>
UpperLetters == <<"A","B","C","D","E","F","G","H","I","J","K","L","M",
                  "N","O","P","Q","R","S","T","U","V","W","X","Y","Z">>

\* unicode.IsUpper on the ASCII range
IsUpper(r) == \E k \in 1..Len(UpperLetters) : UpperLetters[k] = r

\* unicode.ToUpper on the ASCII range: letters a-z map to A-Z, all else is kept
ToUpperRune(r) ==
    IF \E k \in 1..Len(LowerLetters) : LowerLetters[k] = r
    THEN UpperLetters[CHOOSE k \in 1..Len(LowerLetters) : LowerLetters[k] = r]
    ELSE r

\* strings.ToUpper
ToUpper(s) == [k \in 1..Len(s) |-> ToUpperRune(s[k])]

\* Go's s[a:b] (0-based, b exclusive)
Slice(s, a, b) == SubSeq(s, a + 1, b)

\* strings.Index(s, sep) for a one-character sep: 0-based index of the first
\* occurrence, -1 when there is none
Index(s, sep) ==
    IF \E k \in 1..Len(s) : s[k] = sep
    THEN (CHOOSE k \in 1..Len(s) : s[k] = sep /\ \A j \in 1..(k - 1) : s[j] # sep) - 1
    ELSE -1

RECURSIVE Join(_, _)
\* strings.Join
Join(parts, sep) ==
    IF Len(parts) = 0 THEN Empty
    ELSE IF Len(parts) = 1 THEN parts[1]
    ELSE parts[1] \o sep \o Join(Tail(parts), sep)

RECURSIVE SplitFrom(_, _, _)
SplitFrom(s, sep, cur) ==
    IF Len(s) = 0 THEN <<cur>>
    ELSE IF Head(s) = sep THEN <<cur>> \o SplitFrom(Tail(s), sep, Empty)
    ELSE SplitFrom(Tail(s), sep, Append(cur, Head(s)))

\* strings.Split(s, sep) for a one-character sep: "" splits into [""]
Split(s, sep) == SplitFrom(s, sep, Empty)

\* all strings over alphabet of length at most n
StringsUpTo(alphabet, n) == UNION {[1..k -> alphabet] : k \in 0..n}

(***************************************************************************)
(* parseLine                                                               *)
(***************************************************************************)
parseLine_NoGuard(line) ==
    LET i == Index(line, "=")
    IN  IF i < 0 THEN <<Empty, Empty>>
        ELSE <<Slice(line, 0, i), Slice(line, i + 1, Len(line))>>

parseLine(line) ==
    LET i == Index(line, "=")
    IN  IF i <= 0 THEN <<Empty, Empty>>
        ELSE <<Slice(line, 0, i), Slice(line, i + 1, Len(line))>>

(***************************************************************************)
(* camelToSnake                                                            *)
(***************************************************************************)
RECURSIVE camelParts(_, _, _, _)
\* the loop of camelToSnake: i and start are the 0-based loop index and the
\* start of the segment being scanned; returns parts after the final append
camelParts(s, i, start, parts) ==
    IF i >= Len(s) THEN Append(parts, Slice(s, start, Len(s)))
    ELSE IF IsUpper(s[i + 1]) /\ i # 0
         THEN camelParts(s, i + 1, i, Append(parts, Slice(s, start, i)))
         ELSE camelParts(s, i + 1, start, parts)

RECURSIVE camelPartsRuns(_, _, _, _)
camelPartsRuns(s, i, start, parts) ==
    IF i >= Len(s) THEN Append(parts, Slice(s, start, Len(s)))
    ELSE IF IsUpper(s[i + 1]) /\ i # 0 /\ ~IsUpper(s[i])
         THEN camelPartsRuns(s, i + 1, i, Append(parts, Slice(s, start, i)))
         ELSE camelPartsRuns(s, i + 1, start, parts)

camelToSnake_Runs(s) ==
    LET parts == camelPartsRuns(s, 0, 0, << >>)
    IN  Join([k \in 1..Len(parts) |-> ToUpper(parts[k])], <<"_">>)

camelToSnake_NoUpper(s) ==
    LET parts == camelParts(s, 0, 0, << >>)
    IN  Join(parts, <<"_">>)

camelToSnake(s) ==
    LET parts == camelParts(s, 0, 0, << >>)
    IN  Join([k \in 1..Len(parts) |-> ToUpper(parts[k])], <<"_">>)

(***************************************************************************)
(* The process environment.                                                *)
(***************************************************************************)
\* os.LookupEnv: <<value, ok>>
LookupEnv(e, key) ==
    IF key \in DOMAIN e THEN <<e[key], TRUE>> ELSE <<Empty, FALSE>>

\* errors: msg is the text the package puts first, cause the wrapped library
\* error, field the field name a missing-value error names
Err(msg, cause, field) == [msg |-> msg, cause |-> cause, field |-> field]
Nil == Err("nil", "", Empty)

\* os.Setenv: an empty name, or a name holding '=', is rejected with EINVAL
Setenv(e, key, val) ==
    IF key = Empty \/ \E k \in 1..Len(key) : key[k] = "="
    THEN [err |-> "setenv: invalid argument", environ |-> e]
    ELSE [err |-> "",
          environ |-> [n \in (DOMAIN e) \cup {key} |-> IF n = key THEN val ELSE e[n]]]

(***************************************************************************)
(* Types and struct fields as package reflect presents them.               *)
(***************************************************************************)
\* reflect.Type: its Name(), Kind(), Bits(), Elem().Kind() and fields
Type(name, kind, bits, elem, fields) ==
    [name |-> name, kind |-> kind, bits |-> bits, elem |-> elem, fields |-> fields]

\* reflect.StructField: Name, Type and the `env` and `default` tags
\* (Tag.Get returns "" for a tag that is not declared)
StructField(name, type, envTag, defaultTag) ==
    [Name |-> name, Type |-> type, env |-> envTag, default |-> defaultTag]

DurationType == Type("Duration", "Int64", 64, "", << >>)
IntType == Type("int", "Int", 64, "", << >>)
Int8Type == Type("int8", "Int8", 8, "", << >>)
Int16Type == Type("int16", "Int16", 16, "", << >>)
Int32Type == Type("int32", "Int32", 32, "", << >>)
Int64Type == Type("int64", "Int64", 64, "", << >>)
UintType == Type("uint", "Uint", 64, "", << >>)
Uint8Type == Type("uint8", "Uint8", 8, "", << >>)
Float64Type == Type("float64", "Float64", 64, "", << >>)
BoolType == Type("bool", "Bool", 0, "", << >>)
StringType == Type("string", "String", 0, "", << >>)
StringSliceType == Type("", "Slice", 0, "String", << >>)
IntSliceType == Type("", "Slice", 0, "Int", << >>)
MapType == Type("", "Map", 0, "String", << >>)
StructType(fields) == Type("", "Struct", 0, "", fields)

SignedKinds == {"Int", "Int8", "Int16", "Int32", "Int64"}
UnsignedKinds == {"Uint", "Uint8", "Uint16", "Uint32", "Uint64"}
FloatKinds == {"Float32", "Float64"}

\* reflect.TypeOf(time.Duration(0)).Kind(): time.Duration is an int64
DurationKind == "Int64"

RECURSIVE ZeroOf(_)
\* the zero value of a type
ZeroOf(t) ==
    IF t.kind = "Struct" THEN [k \in 1..Len(t.fields) |-> ZeroOf(t.fields[k].Type)]
    ELSE IF t.kind = "Bool" THEN FALSE
    ELSE IF t.kind \in {"String", "Slice", "Map"} THEN Empty
    ELSE 0

(***************************************************************************)
(* The conversions of strconv and time on the strings of the model: signs, *)
(* decimal digits, base prefixes, the duration units s, m and h, and       *)
(* arbitrary other characters.  Outside the model: '_' digit separators,   *)
(* '.', exponents, sub-second duration units.  Durations count seconds.    *)
(* TLC integers are 32 bits wide; the strings of the model stay below it.  *)
(***************************************************************************)
Digits == <<"0","1","2","3","4","5","6","7","8","9","a","b","c","d","e","f">>

IsDecimal(c) == \E k \in 1..10 : Digits[k] = c

\* the digit value of c, 36 when c is no digit
DigitVal(c) ==
    IF \E k \in 1..Len(Digits) : Digits[k] = c
    THEN (CHOOSE k \in 1..Len(Digits) : Digits[k] = c) - 1
    ELSE IF \E k \in 11..16 : ToUpperRune(Digits[k]) = c
    THEN (CHOOSE k \in 11..16 : ToUpperRune(Digits[k]) = c) - 1
    ELSE 36

Parsed(ok, n, cause) == [ok |-> ok, n |-> n, cause |-> cause]

MaxUintOf(bits) == IF bits >= 31 THEN 2147483647 ELSE 2 ^ bits - 1

RECURSIVE AccumulateDigits(_, _, _, _)
AccumulateDigits(s, base, n, max) ==
    IF s = Empty THEN Parsed(TRUE, n, "")
    ELSE LET d == DigitVal(Head(s))
         IN  IF d >= base THEN Parsed(FALSE, 0, "invalid syntax")
             ELSE IF n * base + d > max THEN Parsed(FALSE, max, "value out of range")
             ELSE AccumulateDigits(Tail(s), base, n * base + d, max)

\* strconv.ParseUint(s, 0, bits)
ParseUint(s, bits) ==
    IF s = Empty THEN Parsed(FALSE, 0, "invalid syntax")
    ELSE LET prefixed == Len(s) >= 3 /\ s[1] = "0"
             base == IF s[1] # "0" THEN 10
                     ELSE IF prefixed /\ s[2] \in {"b", "B"} THEN 2
                     ELSE IF prefixed /\ s[2] \in {"o", "O"} THEN 8
                     ELSE IF prefixed /\ s[2] \in {"x", "X"} THEN 16
                     ELSE 8
             rest == IF s[1] # "0" THEN s
                     ELSE IF prefixed /\ s[2] \in {"b", "B", "o", "O", "x", "X"}
                     THEN Slice(s, 2, Len(s))
                     ELSE Slice(s, 1, Len(s))
         IN  AccumulateDigits(rest, base, 0, MaxUintOf(bits))

\* strconv.ParseInt(s, 0, bits)
ParseInt(s, bits) ==
    IF s = Empty THEN Parsed(FALSE, 0, "invalid syntax")
    ELSE LET neg == s[1] = "-"
             body == IF s[1] \in {"+", "-"} THEN Tail(s) ELSE s
             un == ParseUint(body, bits)
             cutoff == IF bits >= 32 THEN 2147483647 ELSE 2 ^ (bits - 1)
         IN  IF ~un.ok /\ un.cause # "value out of range"
             THEN Parsed(FALSE, 0, "invalid syntax")
             ELSE IF ~neg /\ (~un.ok \/ (bits < 32 /\ un.n >= cutoff))
             THEN Parsed(FALSE, cutoff - 1, "value out of range")
             ELSE IF neg /\ (~un.ok \/ (bits < 32 /\ un.n > cutoff))
             THEN Parsed(FALSE, 0 - cutoff, "value out of range")
             ELSE Parsed(TRUE, IF neg THEN 0 - un.n ELSE un.n, "")

\* strconv.ParseFloat(s, 64) on the strings of the model: an optional sign and
\* decimal digits
ParseFloat(s) ==
    LET body == IF s # Empty /\ s[1] \in {"+", "-"} THEN Tail(s) ELSE s
        digits == AccumulateDigits(body, 10, 0, 2147483647)
    IN  IF body = Empty \/ ~digits.ok THEN Parsed(FALSE, 0, "invalid syntax")
        ELSE Parsed(TRUE, IF s[1] = "-" THEN 0 - digits.n ELSE digits.n, "")

\* strconv.ParseBool
ParseBool(s) ==
    IF s \in {<<"1">>, <<"t">>, <<"T">>, <<"T","R","U","E">>, <<"t","r","u","e">>,
              <<"T","r","u","e">>}
    THEN [ok |-> TRUE, b |-> TRUE, cause |-> ""]
    ELSE IF s \in {<<"0">>, <<"f">>, <<"F">>, <<"F","A","L","S","E">>,
                   <<"f","a","l","s","e">>, <<"F","a","l","s","e">>}
    THEN [ok |-> TRUE, b |-> FALSE, cause |-> ""]
    ELSE [ok |-> FALSE, b |-> FALSE, cause |-> "invalid syntax"]

\* the length of the longest prefix of s whose characters all satisfy / all
\* fail IsDecimal
RECURSIVE DigitRun(_)
DigitRun(s) == IF s = Empty \/ ~IsDecimal(Head(s)) THEN 0 ELSE 1 + DigitRun(Tail(s))
RECURSIVE UnitRun(_)
UnitRun(s) == IF s = Empty \/ IsDecimal(Head(s)) THEN 0 ELSE 1 + UnitRun(Tail(s))

\* time's unitMap, in seconds
UnitSeconds(u) ==
    IF u = <<"s">> THEN 1 ELSE IF u = <<"m">> THEN 60 ELSE IF u = <<"h">> THEN 3600 ELSE 0

RECURSIVE DurationTerms(_, _)
\* the loop of time.ParseDuration: ([0-9]+ unit)+
DurationTerms(s, d) ==
    IF s = Empty THEN Parsed(TRUE, d, "")
    ELSE LET nd == DigitRun(s)
             v == AccumulateDigits(Slice(s, 0, nd), 10, 0, 2147483647)
             afterDigits == Slice(s, nd, Len(s))
             nu == UnitRun(afterDigits)
             unit == Slice(afterDigits, 0, nu)
         IN  IF nd = 0 THEN Parsed(FALSE, 0, "invalid duration")
             ELSE IF nu = 0 THEN Parsed(FALSE, 0, "missing unit in duration")
             ELSE IF UnitSeconds(unit) = 0 THEN Parsed(FALSE, 0, "unknown unit in duration")
             ELSE DurationTerms(Slice(afterDigits, nu, Len(afterDigits)),
                                d + v.n * UnitSeconds(unit))

\* time.ParseDuration
ParseDuration(s) ==
    LET neg == s # Empty /\ s[1] = "-"
        body == IF s # Empty /\ s[1] \in {"+", "-"} THEN Tail(s) ELSE s
        terms == DurationTerms(body, 0)
    IN  IF body = <<"0">> THEN Parsed(TRUE, 0, "")
        ELSE IF body = Empty THEN Parsed(FALSE, 0, "invalid duration")
        ELSE IF ~terms.ok THEN terms
        ELSE Parsed(TRUE, IF neg THEN 0 - terms.n ELSE terms.n, "")

(***************************************************************************)
(* getFieldValue                                                           *)
(***************************************************************************)
getFieldValue_EmptyIsAbsent(fieldType, fieldName, e) ==
    LET byTag == LookupEnv(e, fieldType.env)
        byName == LookupEnv(e, camelToSnake(fieldName))
    IN  IF byTag[1] # Empty THEN byTag[1]
        ELSE IF byName[1] # Empty THEN byName[1]
        ELSE fieldType.default

\* e is the process environment at the time of the call
getFieldValue(fieldType, fieldName, e) ==
    LET envTag == fieldType.env
        byTag == LookupEnv(e, envTag)
        byName == LookupEnv(e, camelToSnake(fieldName))
    IN  IF byTag[2] THEN byTag[1]
        ELSE IF byName[2] THEN byName[1]
        ELSE fieldType.default

(***************************************************************************)
(* setFieldValue                                                           *)
(***************************************************************************)
\* the outcome of setFieldValue: the error and the field's value afterwards
Outcome(err, v) == [err |-> err, v |-> v]

\* reflect.Value.Set panics unless the value's type is assignable to the field's
Panic == Err("panic", "reflect.Set: value of type time.Duration is not assignable", Empty)

\* the switch takes the first case whose kind matches: the duration case, whose
\* kind is Int64, comes before the signed integer case
setFieldValue(fieldType, fieldVal, val) ==
    IF fieldType.kind = DurationKind
    THEN LET d == ParseDuration(val)
         IN  IF ~d.ok THEN Outcome(Err("parsing duration", d.cause, Empty), fieldVal)
             ELSE IF fieldType.name # "Duration" THEN Outcome(Panic, fieldVal)
             ELSE Outcome(Nil, d.n)
    ELSE IF fieldType.kind \in SignedKinds
    THEN LET n == ParseInt(val, fieldType.bits)
         IN  IF ~n.ok THEN Outcome(Err("parsing integer", n.cause, Empty), fieldVal)
             ELSE Outcome(Nil, n.n)
    ELSE IF fieldType.kind \in UnsignedKinds
    THEN LET n == ParseUint(val, fieldType.bits)
         IN  IF ~n.ok THEN Outcome(Err("parsing unsigned integer", n.cause, Empty), fieldVal)
             ELSE Outcome(Nil, n.n)
    ELSE IF fieldType.kind \in FloatKinds
    THEN LET f == ParseFloat(val)
         IN  IF ~f.ok THEN Outcome(Err("parsing float", f.cause, Empty), fieldVal)
             ELSE Outcome(Nil, f.n)
    ELSE IF fieldType.kind = "Bool"
    THEN LET b == ParseBool(val)
         IN  IF ~b.ok THEN Outcome(Err("parsing bool", b.cause, Empty), fieldVal)
             ELSE Outcome(Nil, b.b)
    ELSE IF fieldType.kind = "String"
    THEN Outcome(Nil, val)
    ELSE IF fieldType.kind = "Slice"
    THEN IF fieldType.elem # "String"
         THEN Outcome(Err("unsupported slice kind", fieldType.elem, Empty), fieldVal)
         ELSE Outcome(Nil, Split(val, ","))
    ELSE Outcome(Err("unsupported field type", fieldType.name, Empty), fieldVal)

\* parseTo: fieldName := prefix + fieldType.Name
FieldName(prefix, fieldType) == prefix \o fieldType.Name

(***************************************************************************)
(* parseTo                                                                 *)
(***************************************************************************)
RECURSIVE parseTo(_, _, _, _)
RECURSIVE parseToFields(_, _, _, _, _)

\* a walk that records the first error but goes on to the remaining fields
RECURSIVE parseToFields_KeepGoing(_, _, _, _, _)
parseToFields_KeepGoing(t, v, prefix, i, e) ==
    IF i > Len(t.fields) THEN Outcome(Nil, v)
    ELSE LET fieldVal == v[i]
             fieldType == t.fields[i]
             fieldName == FieldName(prefix, fieldType)
             val == getFieldValue(fieldType, fieldName, e)
             here == IF fieldType.Type.kind = "Struct"
                     THEN parseTo(fieldType.Type, fieldVal, fieldName, e)
                     ELSE IF val = Empty /\ prefix # Empty
                     THEN Outcome(Err("no value for field", "", fieldType.Name), fieldVal)
                     ELSE setFieldValue(fieldType.Type, fieldVal, val)
             rest == parseToFields_KeepGoing(t, [v EXCEPT ![i] = here.v], prefix, i + 1, e)
         IN  IF here.err # Nil THEN Outcome(here.err, rest.v) ELSE rest

\* the loop of parseTo from field i (1-based) on; v is the struct's value so far
parseToFields(t, v, prefix, i, e) ==
    IF i > Len(t.fields) THEN Outcome(Nil, v)
    ELSE LET fieldVal == v[i]
             fieldType == t.fields[i]
             fieldName == FieldName(prefix, fieldType)
         IN  IF fieldType.Type.kind = "Struct"
             THEN LET nested == parseTo(fieldType.Type, fieldVal, fieldName, e)
                      walked == [v EXCEPT ![i] = nested.v]
                  IN  IF nested.err # Nil THEN Outcome(nested.err, walked)
                      ELSE parseToFields(t, walked, prefix, i + 1, e)
             ELSE LET val == getFieldValue(fieldType, fieldName, e)
                      set == setFieldValue(fieldType.Type, fieldVal, val)
                  IN  IF val = Empty /\ prefix # Empty
                      THEN Outcome(Err("no value for field", "", fieldType.Name), v)
                      ELSE IF set.err # Nil THEN Outcome(set.err, v)
                      ELSE parseToFields(t, [v EXCEPT ![i] = set.v], prefix, i + 1, e)

\* parseTo(dst, prefix): t and v are the type and the value of *dst, e the
\* process environment; returns the error and the value of *dst afterwards
parseTo(t, v, prefix, e) == parseToFields(t, v, prefix, 1, e)

(***************************************************************************)
(* Load                                                                    *)
(***************************************************************************)
\* os.Open: a path that is not in the file system does not exist; a file may
\* be there and not be open to the process
Open(fs, pth) ==
    IF pth \notin DOMAIN fs THEN [err |-> "not exist", lines |-> << >>]
    ELSE IF ~fs[pth].readable THEN [err |-> "permission denied", lines |-> << >>]
    ELSE [err |-> "", lines |-> fs[pth].lines]

\* the result of Load: the error and the process environment afterwards
Loaded(err, e) == [err |-> err, environ |-> e]

RECURSIVE scanLines(_, _)
\* the scan loop of Load over the lines bufio.Scanner delivers
scanLines(lines, e) ==
    IF lines = << >> THEN Loaded(Nil, e)
    ELSE LET line == Head(lines)
             kv == parseLine(line)
             set == Setenv(e, kv[1], kv[2])
         IN  IF line = Empty THEN scanLines(Tail(lines), e)
             ELSE IF set.err # ""
             THEN Loaded(Err("setting", set.err, Empty), e)
             ELSE scanLines(Tail(lines), set.environ)

\* Load(pth) in environment e and file system fs.  When os.Open fails with
\* fs.ErrNotExist the function goes on with env == nil: Read on a nil *os.File
\* returns os.ErrInvalid, so the scanner delivers no line and buf.Err() is
\* os.ErrInvalid.
Load(pth, e, fs) ==
    LET env == Open(fs, pth)
        scanned == scanLines(env.lines, e)
        bufErr == IF env.err = "not exist" THEN "invalid argument" ELSE ""
    IN  IF env.err # "" /\ env.err # "not exist"
        THEN Loaded(Err("opening dotenv file", env.err, Empty), e)
        ELSE IF scanned.err # Nil THEN scanned
        ELSE IF bufErr # "" THEN Loaded(Err("reading env file", bufErr, Empty), e)
        ELSE Loaded(Nil, scanned.environ)

(***************************************************************************)
(* ParseTo                                                                 *)
(***************************************************************************)
RECURSIVE loadAll_Reversed(_, _, _)
loadAll_Reversed(envPaths, e, fs) ==
    IF envPaths = << >> THEN Loaded(Nil, e)
    ELSE LET loaded == Load(envPaths[Len(envPaths)], e, fs)
         IN  IF loaded.err # Nil THEN loaded
             ELSE loadAll_Reversed(SubSeq(envPaths, 1, Len(envPaths) - 1), loaded.environ, fs)

RECURSIVE loadAll(_, _, _)
\* the loop of ParseTo over envPaths
loadAll(envPaths, e, fs) ==
    IF envPaths = << >> THEN Loaded(Nil, e)
    ELSE LET loaded == Load(Head(envPaths), e, fs)
         IN  IF loaded.err # Nil THEN loaded
             ELSE loadAll(Tail(envPaths), loaded.environ, fs)

\* the result of ParseTo: the error, the environment and *dst afterwards
Parsed3(err, e, v) == [err |-> err, environ |-> e, v |-> v]

\* ParseTo(dst, envPaths...): no path given (envPaths == nil, the empty
\* sequence here) stands for the single path ".env"
ParseTo(t, v, envPaths, e, fs) ==
    LET paths == IF envPaths = << >> THEN <<".env">> ELSE envPaths
        loaded == loadAll(paths, e, fs)
        walked == parseTo(t, v, Empty, loaded.environ)
    IN  IF loaded.err # Nil THEN Parsed3(loaded.err, loaded.environ, v)
        ELSE Parsed3(walked.err, loaded.environ, walked.v)

(***************************************************************************)
(* The state before any call: an empty environment, no files, no struct.   *)
(***************************************************************************)
NoEnv == << >>
NoFiles == << >>
NoDst == << >>
NoRet == << >>

(***************************************************************************)
(* Specification SpecParseLine: parseLine applied to every line over a     *)
(* small alphabet.                                                         *)
(***************************************************************************)
LineAlphabet == {"K", "v", "="}

InitParseLine ==
    /\ environ = NoEnv
    /\ files = NoFiles
    /\ dst = NoDst
    /\ call \in [fn : {"parseLine"}, line : StringsUpTo(LineAlphabet, MaxLineLen)]
    /\ ret = NoRet
    /\ pc = "call"

CallParseLine ==
    /\ pc = "call"
    /\ call.fn = "parseLine"
    /\ ret' = parseLine(call.line)
    /\ pc' = "done"
    /\ UNCHANGED <<environ, files, dst, call>>

NextParseLine == CallParseLine

SpecParseLine == InitParseLine /\ [][NextParseLine]_vars

\* C1: parseLine splits a line at its first '=': when the first '=' is at an
\* index greater than 0 the key is the text before it and the value is all the
\* text after it (possibly empty, possibly holding further '='); when the line
\* has no '=' or starts with '=', both results are empty.
C1_ParseLineSplitsAtFirstEquals ==
    (pc = "done" /\ call.fn = "parseLine") =>
        LET line == call.line
            key == ret[1]
            val == ret[2]
            eqs == {k \in 1..Len(line) : line[k] = "="}
        IN  IF eqs = {} \/ 1 \in eqs
            THEN key = Empty /\ val = Empty
            ELSE /\ key # Empty
                 /\ \A k \in 1..Len(key) : key[k] # "="
                 /\ key \o <<"=">> \o val = line

\* a line whose value itself holds '=' has been split at the first '='
C1_Witness ==
    /\ pc = "done"
    /\ call.fn = "parseLine"
    /\ call.line = <<"K", "=", "=", "v">>
    /\ ret = << <<"K">>, <<"=", "v">> >>

(***************************************************************************)
(* Specification SpecCamelToSnake: the lookup name parseTo derives for a   *)
(* field, for every identifier over a small alphabet and the identifiers   *)
(* of TestCamelToSnake, at the top level and under a prefix.               *)
(***************************************************************************)
NameAlphabet == {"D", "B", "p", "_"}

PascalCase == <<"P","a","s","c","a","l","C","a","s","e">>
CamelCase == <<"c","a","m","e","l","C","a","s","e">>
SnakeCase == <<"s","n","a","k","e","_","c","a","s","e">>
LowerCase == <<"l","o","w","e","r","c","a","s","e">>
DBPortName == <<"D","B","P","o","r","t">>
NestedName == <<"N","e","s","t","e","d">>
ValueName == <<"V","a","l","u","e">>

TestIdentifiers == {PascalCase, CamelCase, SnakeCase, LowerCase, DBPortName, ValueName}

Identifiers == StringsUpTo(NameAlphabet, MaxNameLen) \cup TestIdentifiers

Prefixes == {Empty, NestedName, <<"D", "B">>}

InitCamelToSnake ==
    /\ environ = NoEnv
    /\ files = NoFiles
    /\ dst = NoDst
    /\ call \in [fn : {"camelToSnake"}, prefix : Prefixes, Name : Identifiers]
    /\ ret = NoRet
    /\ pc = "call"

\* the derived lookup name of a field, as parseTo and getFieldValue compute it
CallCamelToSnake ==
    /\ pc = "call"
    /\ call.fn = "camelToSnake"
    /\ ret' = camelToSnake(FieldName(call.prefix, call))
    /\ pc' = "done"
    /\ UNCHANGED <<environ, files, dst, call>>

NextCamelToSnake == CallCamelToSnake

SpecCamelToSnake == InitCamelToSnake /\ [][NextCamelToSnake]_vars

\* positions (1-based) of s where a new segment starts: every uppercase letter
\* that is not the first character
SegmentStarts(s) == {p \in 2..Len(s) : IsUpper(s[p])}

\* where the character at position p of s lands in the derived name
Landing(s, p) == p + Cardinality({q \in SegmentStarts(s) : q <= p})

\* C5: the derived lookup name is the identifier, prefixed by the enclosing
\* field names, with every character upper-cased and one '_' put before every
\* uppercase letter that is not at index 0; PascalCase gives PASCAL_CASE,
\* camelCase CAMEL_CASE, snake_case SNAKE_CASE, lowercase LOWERCASE, and Value
\* under Nested gives NESTED_VALUE.
C5_DerivedNameIsUpperSnake ==
    (pc = "done" /\ call.fn = "camelToSnake") =>
        LET s == call.prefix \o call.Name
            out == ret
        IN  /\ Len(out) = Len(s) + Cardinality(SegmentStarts(s))
            /\ \A p \in 1..Len(s) : out[Landing(s, p)] = ToUpperRune(s[p])
            /\ \A p \in SegmentStarts(s) : out[Landing(s, p) - 1] = "_"
            /\ (s = PascalCase =>
                    out = <<"P","A","S","C","A","L","_","C","A","S","E">>)
            /\ (s = CamelCase =>
                    out = <<"C","A","M","E","L","_","C","A","S","E">>)
            /\ (s = SnakeCase =>
                    out = <<"S","N","A","K","E","_","C","A","S","E">>)
            /\ (s = LowerCase =>
                    out = <<"L","O","W","E","R","C","A","S","E">>)
            /\ (call.prefix = NestedName /\ call.Name = ValueName =>
                    out = <<"N","E","S","T","E","D","_","V","A","L","U","E">>)

\* field Value inside record field Nested has been derived as NESTED_VALUE
C5_Witness ==
    /\ pc = "done"
    /\ call.fn = "camelToSnake"
    /\ call.prefix = NestedName
    /\ call.Name = ValueName
    /\ ret = <<"N","E","S","T","E","D","_","V","A","L","U","E">>

\* C8 as stated: a run of consecutive uppercase letters stays in one segment,
\* a '_' is put only before an uppercase letter that follows a character that
\* is not uppercase, so DBPort derives DB_PORT.
C8_UppercaseRunKeptTogether ==
    (pc = "done" /\ call.fn = "camelToSnake") =>
        LET s == call.prefix \o call.Name
            out == ret
            starts == {p \in 2..Len(s) : IsUpper(s[p]) /\ ~IsUpper(s[p - 1])}
        IN  /\ Len(out) = Len(s) + Cardinality(starts)
            /\ (s = DBPortName => out = <<"D","B","_","P","O","R","T">>)

\* C8 amended: every uppercase letter at a non-zero index starts a segment of
\* its own, also inside a run of consecutive uppercase letters: two adjacent
\* uppercase letters are separated by '_' in the derived name, so DBPort
\* derives D_B_PORT.
C8_UppercaseRunIsSplit ==
    (pc = "done" /\ call.fn = "camelToSnake") =>
        LET s == call.prefix \o call.Name
            out == ret
        IN  /\ \A p \in 2..Len(s) :
                    (IsUpper(s[p]) /\ IsUpper(s[p - 1])) =>
                        /\ Landing(s, p) <= Len(out)
                        /\ out[Landing(s, p)] = s[p]
                        /\ out[Landing(s, p) - 1] = "_"
                        /\ out[Landing(s, p) - 2] = s[p - 1]
            /\ (s = DBPortName => out = <<"D","_","B","_","P","O","R","T">>)

\* DBPort has been derived, with D and B in separate segments
C8_Witness ==
    /\ pc = "done"
    /\ call.fn = "camelToSnake"
    /\ call.prefix = Empty
    /\ call.Name = DBPortName
    /\ ret = <<"D","_","B","_","P","O","R","T">>

(***************************************************************************)
(* Specification SpecGetFieldValue: getFieldValue for a string field with  *)
(* and without an `env` tag and a `default` tag, under every environment   *)
(* that sets or leaves unset the variables FOO and BAR.                    *)
(***************************************************************************)
FOO == <<"F","O","O">>
BAR == <<"B","A","R">>

\* environments: every assignment of values to a subset of names
Environments(names, values) == UNION {[present -> values] : present \in SUBSET names}

ResolverFields ==
    {StructField(name, StringType, envTag, defaultTag) :
        name \in {<<"B","a","r">>, <<"F","o","o">>},
        envTag \in {Empty, FOO},
        defaultTag \in {Empty, <<"x">>}}

InitGetFieldValue ==
    /\ environ \in Environments({FOO, BAR}, {Empty, <<"1">>, <<"2">>})
    /\ files = NoFiles
    /\ dst = NoDst
    /\ call \in {[fn |-> "getFieldValue", fieldType |-> f, fieldName |-> FieldName(Empty, f)] :
                    f \in ResolverFields}
    /\ ret = NoRet
    /\ pc = "call"

CallGetFieldValue ==
    /\ pc = "call"
    /\ call.fn = "getFieldValue"
    /\ ret' = getFieldValue(call.fieldType, call.fieldName, environ)
    /\ pc' = "done"
    /\ UNCHANGED <<environ, files, dst, call>>

NextGetFieldValue == CallGetFieldValue

SpecGetFieldValue == InitGetFieldValue /\ [][NextGetFieldValue]_vars

\* the derived names of the two fields of ResolverFields
DerivedOf(name) == IF name = <<"B","a","r">> THEN BAR ELSE FOO

\* C4: getFieldValue returns the value of the variable named by the `env` tag
\* when the environment has it, also when that value is empty; otherwise the
\* value of the variable with the derived name when the environment has it,
\* also when empty; otherwise the `default` tag (empty when not declared).
C4_ResolutionPriority ==
    (pc = "done" /\ call.fn = "getFieldValue") =>
        LET tag == call.fieldType.env
            derived == DerivedOf(call.fieldType.Name)
            tagSet == tag # Empty /\ tag \in DOMAIN environ
            derivedSet == derived \in DOMAIN environ
        IN  /\ tagSet => ret = environ[tag]
            /\ (~tagSet /\ derivedSet) => ret = environ[derived]
            /\ (~tagSet /\ ~derivedSet) => ret = call.fieldType.default
            /\ (tag = FOO /\ derived = BAR /\ derivedSet /\ tagSet
                    /\ environ[FOO] = <<"1">> /\ environ[BAR] = <<"2">>) => ret = <<"1">>

\* the override variable is present but empty while the derived variable and
\* the default are not: resolution has stopped at the override tier
C4_Witness ==
    /\ pc = "done"
    /\ call.fn = "getFieldValue"
    /\ call.fieldType.env = FOO
    /\ call.fieldType.Name = <<"B","a","r">>
    /\ call.fieldType.default = <<"x">>
    /\ FOO \in DOMAIN environ /\ environ[FOO] = Empty
    /\ BAR \in DOMAIN environ /\ environ[BAR] = <<"2">>
    /\ ret = Empty

(***************************************************************************)
(* Specification SpecSetFieldValue: setFieldValue on a zero field of every *)
(* leaf type, for every string over a small alphabet and the strings of    *)
(* TestSetFieldValue.                                                      *)
(***************************************************************************)
ValAlphabet == {"0", "1", "2", "x", "-", "s", ","}

TestValues ==
    {<<"1","h">>, <<"1","2","3">>, <<"t","r","u","e">>, <<"t","e","s","t">>,
     <<"i","n","v","a","l","i","d">>}

LeafTypes ==
    {DurationType, IntType, Int8Type, Int16Type, Int32Type, Int64Type, UintType,
     Uint8Type, Float64Type, BoolType, StringType, StringSliceType, IntSliceType, MapType}

InitSetFieldValue ==
    /\ environ = NoEnv
    /\ files = NoFiles
    /\ \E t \in LeafTypes, val \in StringsUpTo(ValAlphabet, MaxValLen) \cup TestValues :
            /\ call = [fn |-> "setFieldValue", fieldType |-> t, val |-> val]
            /\ dst = ZeroOf(t)
    /\ ret = Nil
    /\ pc = "call"

CallSetFieldValue ==
    /\ pc = "call"
    /\ call.fn = "setFieldValue"
    /\ LET out == setFieldValue(call.fieldType, dst, call.val)
       IN  /\ dst' = out.v
           /\ ret' = out.err
    /\ pc' = "done"
    /\ UNCHANGED <<environ, files, call>>

NextSetFieldValue == CallSetFieldValue

SpecSetFieldValue == InitSetFieldValue /\ [][NextSetFieldValue]_vars

\* C7: a field of any signed integer width that is not the duration type has
\* its string parsed as an integer and assigned, with a 'parsing integer' error
\* on a string that is no integer; 'parsing duration' is only ever the error of
\* a field of the duration type.
C7_SignedIntegersParseAsIntegers ==
    (pc = "done" /\ call.fn = "setFieldValue") =>
        LET t == call.fieldType
            n == ParseInt(call.val, t.bits)
        IN  /\ (t.kind \in SignedKinds /\ t.name # "Duration") =>
                    IF n.ok THEN ret = Nil /\ dst = n.n
                    ELSE ret.msg = "parsing integer"
            /\ ret.msg = "parsing duration" => t.name = "Duration"

(***************************************************************************)
(* Specification SpecLoad: Load of one path whose file is missing, not     *)
(* readable, or holds up to MaxFileLines lines, well-formed or not, into   *)
(* an environment that may already set the same variables.                 *)
(***************************************************************************)
VarA == <<"A">>
VarB == <<"B">>

LoadLines ==
    {Empty,
     <<"A","=","1">>, <<"A","=","2">>, <<"B","=">>, <<"B","=","1","=","2">>,
     <<"=","A">>, <<"A">>}

\* a file that os.Open opens, with its lines
File(lines) == [readable |-> TRUE, lines |-> lines]
\* a file that is there and that os.Open may not open
Unreadable == [readable |-> FALSE, lines |-> << >>]

SeqsUpTo(S, n) == UNION {[1..k -> S] : k \in 0..n}

\* the file systems with at most the given paths, each missing, unreadable or
\* holding at most MaxFileLines of the given lines
FileSystems(paths, lines) ==
    UNION {[present -> {Unreadable} \cup {File(ls) : ls \in SeqsUpTo(lines, MaxFileLines)}] :
               present \in SUBSET paths}

\* what the caller holds when the call is made
Before(e, v) == [environ |-> e, dst |-> v]

InitLoad ==
    /\ environ \in Environments({VarA, VarB}, {<<"0">>})
    /\ files \in FileSystems({"a.env"}, LoadLines)
    /\ dst = NoDst
    /\ call = [fn |-> "Load", pth |-> "a.env", before |-> Before(environ, dst)]
    /\ ret = Nil
    /\ pc = "call"

CallLoad ==
    /\ pc = "call"
    /\ call.fn = "Load"
    /\ LET loaded == Load(call.pth, environ, files)
       IN  /\ environ' = loaded.environ
           /\ ret' = loaded.err
    /\ pc' = "done"
    /\ UNCHANGED <<files, dst, call>>

NextLoad == CallLoad

SpecLoad == InitLoad /\ [][NextLoad]_vars

\* C2: Load of a path whose file does not exist returns nil and leaves the
\* environment as it was; an error comes only from a file that is there.
C2_MissingFileIsNotAnError ==
    (pc = "done" /\ call.fn = "Load") =>
        /\ call.pth \notin DOMAIN files => (ret = Nil /\ environ = call.before.environ)
        /\ ret.msg \in {"opening dotenv file", "reading env file"} => call.pth \in DOMAIN files

\* a line is well-formed when it holds '=' after a non-empty key
WellFormed(line) == \E k \in 2..Len(line) : line[k] = "=" /\ \A j \in 1..(k - 1) : line[j] # "="

\* the key and the value of a well-formed line
KeyOf(line) == SubSeq(line, 1, (CHOOSE k \in 2..Len(line) : line[k] = "=" /\ \A j \in 1..(k - 1) : line[j] # "=") - 1)
ValueOf(line) == SubSeq(line, Len(KeyOf(line)) + 2, Len(line))

\* the well-formed lines of a file that name key
Naming(lines, key) == {k \in 1..Len(lines) : WellFormed(lines[k]) /\ KeyOf(lines[k]) = key}

\* the greatest element of a non-empty set of numbers
Last(S) == CHOOSE k \in S : \A j \in S : j <= k

\* C3: Load of a readable file returns nil whatever blank and malformed lines
\* the file holds; afterwards every key named by a well-formed line holds the
\* value of the last such line, and every other variable is as it was.
C3_LoadAppliesWellFormedLines ==
    (pc = "done" /\ call.fn = "Load" /\ Open(files, call.pth).err = "") =>
        LET lines == files[call.pth].lines
            keys == {KeyOf(lines[k]) : k \in {j \in 1..Len(lines) : WellFormed(lines[j])}}
            old == call.before.environ
        IN  /\ ret = Nil
            /\ DOMAIN environ = (DOMAIN old) \cup keys
            /\ \A key \in keys : environ[key] = ValueOf(lines[Last(Naming(lines, key))])
            /\ \A key \in (DOMAIN old) \ keys : environ[key] = old[key]

(***************************************************************************)
(* Specification SpecWalk: parseTo(&cfg, "") on the struct of TestParseTo  *)
(* and on a struct with two levels of nesting, zero or already filled,     *)
(* under every environment that sets or leaves unset their variables.      *)
(***************************************************************************)
Str_Home == <<"H","o","m","e">>
Str_Default == <<"D","e","f","a","u","l","t">>
Str_Empty == <<"E","m","p","t","y">>
Str_default == <<"d","e","f","a","u","l","t">>
HOME == <<"H","O","M","E">>
DEFAULT == <<"D","E","F","A","U","L","T">>
EMPTY == <<"E","M","P","T","Y">>
NESTED_VALUE == <<"N","E","S","T","E","D","_","V","A","L","U","E">>

\* type config of TestParseTo
ConfigType ==
    StructType(<<StructField(Str_Home, StringType, HOME, Empty),
                 StructField(Str_Default, StringType, Empty, Str_default),
                 StructField(Str_Empty, IntType, Empty, Empty),
                 StructField(NestedName, StructType(<<StructField(ValueName, StringType, Empty, Empty)>>),
                             Empty, Empty)>>)

\* struct { Db struct { Port int8; In struct { Wait time.Duration }
\*                      Name string `default:"db"` }; Max int64; Tags []string }
ServerType ==
    StructType(<<StructField(<<"D","b">>,
                    StructType(<<StructField(<<"P","o","r","t">>, Int8Type, Empty, Empty),
                                 StructField(<<"I","n">>,
                                    StructType(<<StructField(<<"W","a","i","t">>, DurationType, Empty, Empty)>>),
                                    Empty, Empty),
                                 StructField(<<"N","a","m","e">>, StringType, Empty, <<"d","b">>)>>),
                    Empty, Empty),
                 StructField(<<"M","a","x">>, Int64Type, Empty, Empty),
                 StructField(<<"T","a","g","s">>, StringSliceType, Empty, Empty)>>)

DB_PORT == <<"D","B","_","P","O","R","T">>
DB_IN_WAIT == <<"D","B","_","I","N","_","W","A","I","T">>
DB_NAME == <<"D","B","_","N","A","M","E">>
MAX == <<"M","A","X">>
TAGS == <<"T","A","G","S">>

\* the variables each struct reads
VariablesOf(t) ==
    IF t = ConfigType THEN {HOME, DEFAULT, EMPTY, NESTED_VALUE}
    ELSE {DB_PORT, DB_IN_WAIT, DB_NAME, MAX, TAGS}

WalkValues == {Empty, <<"1","0">>, <<"5","s">>}

RECURSIVE FilledOf(_)
\* a value of a type in which no field is zero
FilledOf(t) ==
    IF t.kind = "Struct" THEN [k \in 1..Len(t.fields) |-> FilledOf(t.fields[k].Type)]
    ELSE IF t.kind = "Bool" THEN TRUE
    ELSE IF t.kind = "String" THEN <<"o","l","d">>
    ELSE IF t.kind \in {"Slice", "Map"} THEN << <<"o","l","d">> >>
    ELSE 7

InitWalk ==
    /\ files = NoFiles
    /\ \E t \in {ConfigType, ServerType} :
        /\ environ \in Environments(VariablesOf(t), WalkValues)
        /\ dst \in {ZeroOf(t), FilledOf(t)}
        /\ call = [fn |-> "parseTo", type |-> t, prefix |-> Empty,
                   before |-> Before(environ, dst)]
    /\ ret = Nil
    /\ pc = "call"

CallParseToWalk ==
    /\ pc = "call"
    /\ call.fn = "parseTo"
    /\ LET walked == parseTo(call.type, dst, call.prefix, environ)
       IN  /\ dst' = walked.v
           /\ ret' = walked.err
    /\ pc' = "done"
    /\ UNCHANGED <<environ, files, call>>

NextWalk == CallParseToWalk

SpecWalk == InitWalk /\ [][NextWalk]_vars

RECURSIVE Leaves(_, _, _)
\* the leaf fields of a struct type in declaration order, depth first: each
\* with its field, the path of field indexes to it and the names of the
\* fields enclosing it
Leaves(t, path, prefix) ==
    LET OfField(k) ==
            IF t.fields[k].Type.kind = "Struct"
            THEN Leaves(t.fields[k].Type, Append(path, k), prefix \o t.fields[k].Name)
            ELSE <<[field |-> t.fields[k], path |-> Append(path, k), prefix |-> prefix]>>
        Upto[k \in 0..Len(t.fields)] == IF k = 0 THEN << >> ELSE Upto[k - 1] \o OfField(k)
    IN  Upto[Len(t.fields)]

RECURSIVE ValueAt(_, _)
\* the value at a path of field indexes
ValueAt(v, path) == IF path = << >> THEN v ELSE ValueAt(v[Head(path)], Tail(path))

\* the environment has a variable for the leaf, under its override name or
\* its derived name
HasVariable(leaf, e) ==
    \/ leaf.field.env # Empty /\ leaf.field.env \in DOMAIN e
    \/ camelToSnake(leaf.prefix \o leaf.field.Name) \in DOMAIN e

\* setFieldValue's outcome for a leaf, given the value it held before the call
LeafOutcome(leaf, old, e) ==
    LET val == getFieldValue(leaf.field, leaf.prefix \o leaf.field.Name, e)
    IN  IF val = Empty /\ leaf.prefix # Empty
        THEN Outcome(Err("no value for field", "", leaf.field.Name), old)
        ELSE setFieldValue(leaf.field.Type, old, val)

\* C6: when some leaf field, at the top level or nested, has no variable in
\* the environment under its override name or its derived name and declares no
\* default, parseTo returns an error; when the first such field in walk order
\* is nested and no field before it fails, the error is 'no value for field'
\* naming it.
C6_MissingValueIsAnError ==
    (pc = "done" /\ call.fn = "parseTo") =>
        LET leaves == Leaves(call.type, << >>, Empty)
            missing == {k \in 1..Len(leaves) :
                            ~HasVariable(leaves[k], environ) /\ leaves[k].field.default = Empty}
            Out(k) == LeafOutcome(leaves[k], ValueAt(call.before.dst, leaves[k].path), environ)
        IN  /\ missing # {} => ret # Nil
            /\ \A k \in missing :
                    (leaves[k].prefix # Empty /\ \A j \in 1..(k - 1) : Out(j).err = Nil) =>
                        ret = Err("no value for field", "", leaves[k].field.Name)

PairType ==
    StructType(<<StructField(VarA, StringType, Empty, Empty),
                 StructField(VarB, IntType, Empty, Empty)>>)

ParseToLines == {<<"A","=","1">>, <<"A","=","2">>, <<"A">>}

\* the file ".env" is missing or sets A
DotEnvs == {[p \in {} |-> Unreadable], [p \in {".env"} |-> File(<< <<"A","=","1">> >>)]}

InitParseTo ==
    /\ environ \in Environments({VarB}, {<<"7">>, <<"x">>})
    /\ files \in {fs @@ dot : fs \in FileSystems({"a.env", "b.env"}, ParseToLines), dot \in DotEnvs}
    /\ dst \in {ZeroOf(PairType), FilledOf(PairType)}
    /\ \E envPaths \in {<< >>, <<"a.env">>, <<"a.env", "b.env">>, <<"b.env", "a.env">>} :
            call = [fn |-> "ParseTo", type |-> PairType, envPaths |-> envPaths,
                    before |-> Before(environ, dst)]
    /\ ret = Nil
    /\ pc = "call"

CallParseTo ==
    /\ pc = "call"
    /\ call.fn = "ParseTo"
    /\ LET parsed == ParseTo(call.type, dst, call.envPaths, environ, files)
       IN  /\ environ' = parsed.environ
           /\ dst' = parsed.v
           /\ ret' = parsed.err
    /\ pc' = "done"
    /\ UNCHANGED <<files, call>>

NextParseTo == CallParseTo

SpecParseTo == InitParseTo /\ [][NextParseTo]_vars

\* C10: ParseTo loads the files in argument order, each on top of what the
\* ones before it left, and walks the record only after the last: when the
\* load of some file fails, ParseTo returns that error, the environment is as
\* that load left it (no later file is loaded) and the record is untouched;
\* when every load succeeds, a key set by several files holds the value of the
\* last file that sets it, and so does the field resolved from it.
C10_LoadsInOrderBeforeWalking ==
    (pc = "done" /\ call.fn = "ParseTo") =>
        LET paths == IF call.envPaths = << >> THEN <<".env">> ELSE call.envPaths
            After[k \in 0..Len(paths)] ==
                IF k = 0 THEN Loaded(Nil, call.before.environ)
                ELSE Load(paths[k], After[k - 1].environ, files)
            failed == {k \in 1..Len(paths) : After[k].err # Nil}
            first == CHOOSE k \in failed : \A j \in failed : k <= j
            setters == {k \in 1..Len(paths) : Naming(files[paths[k]].lines, VarA) # {}}
            lastLines == files[paths[Last(setters)]].lines
            walked == parseTo(call.type, call.before.dst, Empty, environ)
        IN  IF failed # {}
            THEN /\ ret = After[first].err
                 /\ environ = After[first].environ
                 /\ dst = call.before.dst
            ELSE /\ environ = After[Len(paths)].environ
                 /\ ret = walked.err
                 /\ dst = walked.v
                 /\ setters # {} =>
                        /\ environ[VarA] = ValueOf(lastLines[Last(Naming(lastLines, VarA))])
                        /\ dst[1] = environ[VarA]

\* two files set A, the second one last: the environment and the field hold
\* the second file's value
C10_Witness ==
    /\ pc = "done"
    /\ call.fn = "ParseTo"
    /\ call.envPaths = <<"a.env", "b.env">>
    /\ "a.env" \in DOMAIN files /\ files["a.env"] = File(<< <<"A","=","1">> >>)
    /\ "b.env" \in DOMAIN files /\ files["b.env"] = File(<< <<"A","=","2">> >>)
    /\ ret = Nil
    /\ environ[VarA] = <<"2">>
    /\ dst = << <<"2">>, 7 >>

====
